---- MODULE Spec2Model ----
(***************************************************************************)
(* TalkToMeKit Qwen3-TTS runner: the mode/model registry, the candidate    *)
(* resolver and the model lifecycle of                                     *)
(*   Sources/TTMService/Resources/qwen_tts_runner.py       (multi-mode)    *)
(*   Sources/TTMPythonBridge/Resources/qwen_tts_runner.py  (single-mode)   *)
(***************************************************************************)
EXTENDS Integers, Sequences, FiniteSets, TLC

VARIABLES
    \* environment read once at import (os.getenv)
    DEFAULT_MODE, ALLOW_FALLBACK, ALLOW_CROSS_MODE_FALLBACK,
    \* which of the two qwen_tts_runner modules the process imported
    runner,
    \* TTMService module globals
    MODEL_LOADED, QWEN_MODEL, ACTIVE_MODE, ACTIVE_MODEL_ID,
    \* TTMPythonBridge module globals
    Bridge_MODEL_LOADED, Bridge_QWEN_MODEL,
    \* the last public call run to completion: what was called, the
    \* _create_model calls it made (in order), what it returned or raised
    call, attempted, result,
    \* the calls it made on the model handle (in order), the WAV it returned
    generated, wav,
    \* the pair that was active when unload_model last ran, kept while the
    \* loads that follow it run
    released,
    \* when the caller made the same call twice in a row: the pair that was
    \* active and the number of _create_model calls made when the first ended
    preceding,
    \* statement-level execution of load_model / unload_model / _ensure_loaded
    pc, frame, overlapped,
    \* _candidates_for_mode applied to drawn inputs
    cand_in, cand_out,
    \* _to_wav_bytes / _silent_wav applied to drawn inputs
    wav_in, wav_out,
    \* the transient reference-audio files that exist
    files,
    \* _generate_voice_clone applied to drawn inputs
    clone_in, clone_out

cfg_vars     == <<DEFAULT_MODE, ALLOW_FALLBACK, ALLOW_CROSS_MODE_FALLBACK, runner>>
service_vars == <<MODEL_LOADED, QWEN_MODEL, ACTIVE_MODE, ACTIVE_MODEL_ID>>
bridge_vars  == <<Bridge_MODEL_LOADED, Bridge_QWEN_MODEL>>
call_vars    == <<call, attempted, result, generated, wav, released, preceding>>
step_vars    == <<pc, frame, overlapped>>
cand_vars    == <<cand_in, cand_out>>
wav_vars     == <<wav_in, wav_out>>
clone_vars   == <<clone_in, clone_out>>
vars == <<cfg_vars, service_vars, bridge_vars, call_vars, step_vars, cand_vars, wav_vars,
          files, clone_vars>>

----------------------------------------------------------------------------
(* Values *)

\* Python's None where a str is expected
NONE == "<None>"

\* Python's None where a model handle is expected.  A handle is tagged with
\* the candidate (mode, model id) of the loop iteration that created it.
NoHandle == [mode |-> NONE, model |-> NONE]

DEFAULT_VOICE_DESIGN_MODEL == "Qwen/Qwen3-TTS-12Hz-1.7B-VoiceDesign"
DEFAULT_CUSTOM_VOICE_MODEL == "Qwen/Qwen3-TTS-12Hz-0.6B-CustomVoice"
DEFAULT_VOICE_CLONE_MODEL  == "Qwen/Qwen3-TTS-12Hz-0.6B-Base"
CUSTOM_VOICE_17B_MODEL     == "Qwen/Qwen3-TTS-12Hz-1.7B-CustomVoice"
VOICE_CLONE_17B_MODEL      == "Qwen/Qwen3-TTS-12Hz-1.7B-Base"
UNREGISTERED_MODEL         == "Acme/Unregistered-TTS"

\* dict iteration order of MODEL_REGISTRY
RegistryModes == <<"voice_design", "custom_voice", "voice_clone">>

MODEL_REGISTRY ==
    [m \in {"voice_design", "custom_voice", "voice_clone"} |->
        CASE m = "voice_design" -> <<DEFAULT_VOICE_DESIGN_MODEL>>
          [] m = "custom_voice" -> <<DEFAULT_CUSTOM_VOICE_MODEL, CUSTOM_VOICE_17B_MODEL>>
          [] m = "voice_clone"  -> <<DEFAULT_VOICE_CLONE_MODEL, VOICE_CLONE_17B_MODEL>>]

Range(s) == {s[i] : i \in 1..Len(s)}

RegisteredModels == UNION {Range(MODEL_REGISTRY[m]) : m \in DOMAIN MODEL_REGISTRY}

\* str.strip() and str.lower() on the strings the model draws
Strip(s) ==
    CASE s = "  "             -> ""
      [] s = " Voice_Clone "  -> "Voice_Clone"
      [] s = " voice_clone "  -> "voice_clone"
      [] s = " Qwen/Qwen3-TTS-12Hz-0.6B-Base " -> DEFAULT_VOICE_CLONE_MODEL
      [] OTHER                -> s

Lower(s) ==
    CASE s = " Voice_Clone "  -> " voice_clone "
      [] s = "Voice_Clone"    -> "voice_clone"
      [] s = "Serena"         -> "serena"
      [] OTHER                -> s

\* Python truthiness of an Optional[str]
Truthy(s) == s # NONE /\ s # ""

\* x or y
Or(x, y) == IF Truthy(x) THEN x ELSE y

----------------------------------------------------------------------------
(* Mode / model resolution *)

resolve_mode(mode) ==
    LET requested == Lower(Strip(Or(mode, DEFAULT_MODE)))
    IN  IF requested \notin DOMAIN MODEL_REGISTRY THEN DEFAULT_MODE ELSE requested

\* MODEL_REGISTRY[mode][0] raises KeyError for a mode that is no registry key
KeyError == "raise:KeyError"

resolve_default_model_for_mode(mode) ==
    IF mode \in DOMAIN MODEL_REGISTRY THEN MODEL_REGISTRY[mode][1] ELSE KeyError

resolve_model(mode, model_id) ==
    LET requested == Strip(Or(model_id, ""))
    IN  IF requested = "" THEN resolve_default_model_for_mode(mode) ELSE requested

----------------------------------------------------------------------------
(* Candidate resolver *)

\* MODEL_REGISTRY.get(mode, [])
SameMode(mode) == IF mode \in DOMAIN MODEL_REGISTRY THEN MODEL_REGISTRY[mode] ELSE <<>>

RECURSIVE SelectOthers(_, _, _)
\* [(mode, id) for id in ids if id != requested_model]
SelectOthers(mode, ids, requested_model) ==
    IF ids = <<>> THEN <<>>
    ELSE (IF Head(ids) # requested_model THEN <<<<mode, Head(ids)>>>> ELSE <<>>)
         \o SelectOthers(mode, Tail(ids), requested_model)

RECURSIVE CrossModeKeepsRequested(_, _, _)
\* the loop without the test of lines 304-305
CrossModeKeepsRequested(modes, mode, requested_model) ==
    IF modes = <<>> THEN <<>>
    ELSE (IF Head(modes) = mode THEN <<>>
          ELSE SelectOthers(Head(modes), MODEL_REGISTRY[Head(modes)], ""))
         \o CrossModeKeepsRequested(Tail(modes), mode, requested_model)

RECURSIVE CrossMode(_, _, _)
\* the loop over MODEL_REGISTRY.items() skipping `mode`
CrossMode(modes, mode, requested_model) ==
    IF modes = <<>> THEN <<>>
    ELSE (IF Head(modes) = mode THEN <<>>
          ELSE SelectOthers(Head(modes), MODEL_REGISTRY[Head(modes)], requested_model))
         \o CrossMode(Tail(modes), mode, requested_model)

RECURSIVE Unique(_, _)
\* the seen-set pass: keeps the first occurrence of every entry
Unique(ordered, seen) ==
    IF ordered = <<>> THEN <<>>
    ELSE IF Head(ordered) \in seen THEN Unique(Tail(ordered), seen)
         ELSE <<Head(ordered)>> \o Unique(Tail(ordered), seen \cup {Head(ordered)})

CandRequested(mode, requested_model) ==
    IF requested_model # "" THEN <<<<mode, requested_model>>>> ELSE <<>>

\* line 299 without the strict test
CandCrossIgnoresStrict(strict, cross) == cross

CandCrossEnabled(strict, cross) == ~strict /\ cross

\* the registry's entries ahead of the requested one
CandOrderedRegistryFirst(mode, requested_model, strict, cross) ==
    SelectOthers(mode, SameMode(mode), requested_model)
    \o CandRequested(mode, requested_model)
    \o (IF CandCrossEnabled(strict, cross)
        THEN CrossMode(RegistryModes, mode, requested_model) ELSE <<>>)

CandOrdered(mode, requested_model, strict, cross) ==
    CandRequested(mode, requested_model)
    \o SelectOthers(mode, SameMode(mode), requested_model)
    \o (IF CandCrossEnabled(strict, cross)
        THEN CrossMode(RegistryModes, mode, requested_model) ELSE <<>>)

RECURSIVE PairAll(_, _)
PairAll(mode, ids) ==
    IF ids = <<>> THEN <<>> ELSE <<<<mode, Head(ids)>>>> \o PairAll(mode, Tail(ids))

\* the list built with neither the `!= requested_model` tests nor the seen-set pass
candidates_for_mode_unfiltered(mode, requested_model, strict, cross) ==
    CandRequested(mode, requested_model)
    \o PairAll(mode, SameMode(mode))
    \o (IF CandCrossEnabled(strict, cross)
        THEN CrossMode(RegistryModes, mode, requested_model) ELSE <<>>)

candidates_for_mode(mode, requested_model, strict, cross) ==
    Unique(CandOrdered(mode, requested_model, strict, cross), {})

----------------------------------------------------------------------------
(* Drawn inputs *)

\* what a caller may pass as `mode`: absent, empty, a known mode, a known mode
\* in another case with padding, an unknown mode
ModeInputs == {NONE, "", "voice_design", "custom_voice", " Voice_Clone ", "bogus"}

\* what a caller may pass as `model_id`
ModelInputs == {NONE, "  ", DEFAULT_VOICE_DESIGN_MODEL, DEFAULT_CUSTOM_VOICE_MODEL,
                CUSTOM_VOICE_17B_MODEL, " Qwen/Qwen3-TTS-12Hz-0.6B-Base ",
                UNREGISTERED_MODEL}

StrictInputs == {NONE, "0", "1"}

\* what a caller may pass as `model_id` to a synthesis entry point
SynthModelInputs == {NONE, CUSTOM_VOICE_17B_MODEL, UNREGISTERED_MODEL}

\* no input drawn for the WAV functions
NoWavIn == [op |-> "none", samples |-> <<>>, sample_rate |-> 0]

\* TTM_QWEN_MODE as the environment may set it
DefaultModes == {"voice_design", "custom_voice", "bogus"}

\* the modes and models _candidates_for_mode can be handed
CandModes  == {"voice_design", "custom_voice", "voice_clone", "bogus"}
CandModels == RegisteredModels \cup {UNREGISTERED_MODEL, ""}

NoCall == [op |-> "none"]

\* no WAV returned
NoWav == [nchannels |-> 0, sampwidth |-> 0, framerate |-> 0, pcm |-> <<>>]

\* no _generate_voice_clone input drawn, no result yet
NoCloneIn == [handle |-> NoHandle, methods |-> {}, gens |-> <<>>]
NoClone == [calls |-> <<>>, ret |-> "?", wav |-> NoWav, files |-> {}]

\* the threads that may call into the service module
Procs == {1, 2}

\* the locals of a load_model / unload_model / _ensure_loaded activation
IdleFrame == [op |-> "none", mode |-> NONE, model_id |-> NONE, strict |-> FALSE,
              cands |-> <<>>, i |-> 0, model |-> NoHandle]
IdlePc == [p \in Procs |-> "idle"]
NoFrame == [p \in Procs |-> IdleFrame]

----------------------------------------------------------------------------
(* WAV encoding.  A float sample is fixed-point here: the integer n stands   *)
(* for n / SampleScale.  For such a sample the binary64 product with         *)
(* 32767.0 has the integer part of the exact product: the exact product is   *)
(* an integer only for the samples -1, 0 and 1, which binary64 holds exactly. *)

SampleScale == 1000

PCM_FULL_SCALE == 32767

\* int(x) for x = a / b, b > 0: truncation toward zero
TruncDiv(a, b) == IF a >= 0 THEN a \div b ELSE -((-a) \div b)

\* round(x) for x = a / b, b > 0: to the nearest integer, a tie to the even one
RoundDiv(a, b) ==
    LET n == IF a >= 0 THEN a ELSE -a
        q == n \div b
        r == n % b
        m == IF 2 * r > b \/ (2 * r = b /\ q % 2 = 1) THEN q + 1 ELSE q
    IN  IF a >= 0 THEN m ELSE -m

\* max(-1.0, min(1.0, sample))
Clip(sample) ==
    IF sample > SampleScale THEN SampleScale
    ELSE IF sample < -SampleScale THEN -SampleScale ELSE sample

\* struct.pack("<h", v): the two bytes of v in two's complement, low byte first
PackLE16(v) ==
    LET u == IF v < 0 THEN v + 65536 ELSE v
    IN  <<u % 256, u \div 256>>

\* struct.pack("<h", int(sample * 32767.0))
Quantize(sample) == PackLE16(TruncDiv(sample * PCM_FULL_SCALE, SampleScale))

RECURSIVE JoinBytes(_)
\* b"".join(...)
JoinBytes(chunks) ==
    IF chunks = <<>> THEN <<>> ELSE Head(chunks) \o JoinBytes(Tail(chunks))

\* the file the wave module writes: setnchannels(1), setsampwidth(2),
\* setframerate(sample_rate), writeframes(pcm)
WavFile(sample_rate, pcm) ==
    [nchannels |-> 1, sampwidth |-> 2, framerate |-> sample_rate, pcm |-> pcm]

to_wav_bytes(samples, sample_rate) ==
    LET clipped == [i \in 1..Len(samples) |-> Clip(samples[i])]
        pcm == JoinBytes([i \in 1..Len(clipped) |-> Quantize(clipped[i])])
    IN  WavFile(sample_rate, pcm)

RECURSIVE FloorLog2(_)
FloorLog2(n) == IF n <= 1 THEN 0 ELSE 1 + FloorLog2(n \div 2)

Pow2(e) == 2 ^ e

\* floor(0.35 * sample_rate) in exact arithmetic
FrameCountExact(sample_rate) == (35 * sample_rate) \div 100

\* int(sample_rate * 0.35) in binary64.  The double 0.35 is 0.35 - 2^-54 * 2/5,
\* so the exact product lies below 0.35 * sample_rate by sample_rate * 2^-54 * 2/5.
\* Unless sample_rate = 20k that changes no integer part.  For sample_rate = 20k
\* the product 7k - k * 2^-51 rounds (to nearest, ties to even) back to 7k when
\* k * 2^-51 is at most half the spacing 2^(e-52) of the doubles below 7k,
\* e = floor(log2(7k)), and to the double below 7k otherwise.
FrameCount(sample_rate) ==
    IF sample_rate > 0 /\ sample_rate % 20 = 0
    THEN LET k == sample_rate \div 20
         IN  IF 4 * k > Pow2(FloorLog2(7 * k)) THEN 7 * k - 1 ELSE 7 * k
    ELSE FrameCountExact(sample_rate)

Max(a, b) == IF a >= b THEN a ELSE b

\* _silent_wav(sample_rate) with the default seconds = 0.35
silent_wav(sample_rate) ==
    LET frame_count == Max(1, FrameCount(sample_rate))
        pcm == [i \in 1..(2 * frame_count) |-> 0]
    IN  WavFile(sample_rate, pcm)

\* wave.open(..., "rb").readframes() unpacked with "<h": the frames of a file
Frames(w) ==
    [i \in 1..(Len(w.pcm) \div 2) |->
        LET u == w.pcm[2 * i - 1] + 256 * w.pcm[2 * i]
        IN  IF u >= 32768 THEN u - 65536 ELSE u]

----------------------------------------------------------------------------
(* Model creation *)

\* What one _create_model call can do: "ok" from_pretrained returns a model,
\* "none" the qwen_tts module or its Qwen3TTSModel is missing (returns None),
\* "raise" from_pretrained raises.
Outcomes == {"ok", "none", "raise"}

\* _create_model(model_id) within the loop iteration (mode, model_id):
\* what it returns, or that it raised
create_model(mode, model_id, outcome) ==
    CASE outcome = "ok"    -> [raised |-> FALSE, value |-> [mode |-> mode, model |-> model_id]]
      [] outcome = "none"  -> [raised |-> FALSE, value |-> NoHandle]
      [] outcome = "raise" -> [raised |-> TRUE,  value |-> NoHandle]

\* the longest candidate list: the requested id and every registered one
MaxAttempts == Cardinality(RegisteredModels) + 1

\* The outcomes of the _create_model calls of one public call, by call order.
\* A call after the first outcome other than "none" is never made, so those
\* positions are fixed.
OutcomeSeqs ==
    {[i \in 1..MaxAttempts |-> IF i = k THEN o ELSE "none"] :
        k \in 1..(MaxAttempts + 1), o \in {"ok", "raise"}}

\* the same for a synthesis call: the first or the second call yields a model
\* or raises, or none does
SynthOutcomeSeqs ==
    {[i \in 1..MaxAttempts |-> IF i = k THEN o ELSE "none"] :
        k \in {1, 2, MaxAttempts + 1}, o \in {"ok", "raise"}}

----------------------------------------------------------------------------
(* Model lifecycle, TTMService *)

ServiceState ==
    [loaded |-> MODEL_LOADED, handle |-> QWEN_MODEL,
     mode |-> ACTIVE_MODE, model_id |-> ACTIVE_MODEL_ID]

\* lines 348-351 and 361-364 without the assignment to _MODEL_LOADED
UnloadedFlagKept ==
    [loaded |-> MODEL_LOADED, handle |-> NoHandle, mode |-> NONE, model_id |-> NONE]

\* lines 348-351 and 361-364
Unloaded == [loaded |-> FALSE, handle |-> NoHandle, mode |-> NONE, model_id |-> NONE]

\* lines 341-344 with _ACTIVE_MODEL_ID assigned the mode
LoadedWithModeAsModel(model, candidate_mode, candidate_model) ==
    [loaded |-> TRUE, handle |-> model, mode |-> candidate_mode, model_id |-> candidate_mode]

\* lines 341-344
LoadedWith(model, candidate_mode, candidate_model) ==
    [loaded |-> TRUE, handle |-> model, mode |-> candidate_mode, model_id |-> candidate_model]

Bool(b) == IF b THEN "True" ELSE "False"

\* lines 368-369
is_model_loaded(st) == [st |-> st, log |-> <<>>, ret |-> Bool(st.loaded)]

\* the `already loaded` test without the comparison of the pair
AlreadyLoadedAnyPair(st, mode, model_id) == st.loaded /\ st.handle # NoHandle

\* the `already loaded` test with `_QWEN_MODEL is None`
AlreadyLoadedInverted(st, mode, model_id) ==
    st.loaded /\ st.handle = NoHandle /\ st.mode = mode /\ st.model_id = model_id

\* the `already loaded` test of load_model and _ensure_loaded
AlreadyLoaded(st, mode, model_id) ==
    st.loaded /\ st.handle # NoHandle /\ st.mode = mode /\ st.model_id = model_id

CreateRaised == "raise:from_pretrained"

RECURSIVE LoadLoopRequested(_, _, _, _)
\* the for loop recording the requested pair (the first candidate) as active
LoadLoopRequested(st, cands, outs, i) ==
    IF i > Len(cands)
    THEN [st |-> Unloaded, log |-> <<>>, ret |-> Bool(ALLOW_FALLBACK)]
    ELSE LET candidate_mode  == cands[i][1]
             candidate_model == cands[i][2]
             created == create_model(candidate_mode, candidate_model, outs[i])
             model == created.value
             entry == [mode |-> candidate_mode, model |-> candidate_model, outcome |-> outs[i]]
         IN  IF created.raised
             THEN [st |-> st, log |-> <<entry>>, ret |-> CreateRaised]
             ELSE IF model = NoHandle
             THEN LET rest == LoadLoopRequested(st, cands, outs, i + 1)
                  IN  [rest EXCEPT !.log = <<entry>> \o @]
             ELSE [st |-> LoadedWith(model, cands[1][1], cands[1][2]),
                   log |-> <<entry>>, ret |-> "True"]

RECURSIVE LoadLoop(_, _, _, _)
\* the for loop of load_model from candidate i on, and what follows it
LoadLoop(st, cands, outs, i) ==
    IF i > Len(cands)
    THEN [st |-> Unloaded, log |-> <<>>, ret |-> Bool(ALLOW_FALLBACK)]
    ELSE LET candidate_mode  == cands[i][1]
             candidate_model == cands[i][2]
             created == create_model(candidate_mode, candidate_model, outs[i])
             model == created.value
             entry == [mode |-> candidate_mode, model |-> candidate_model, outcome |-> outs[i]]
         IN  IF created.raised
             THEN [st |-> st, log |-> <<entry>>, ret |-> CreateRaised]
             ELSE IF model = NoHandle
             THEN LET rest == LoadLoop(st, cands, outs, i + 1)
                  IN  [rest EXCEPT !.log = <<entry>> \o @]
             ELSE [st |-> LoadedWith(model, candidate_mode, candidate_model),
                   log |-> <<entry>>, ret |-> "True"]

strict_load(strict) == IF strict # NONE THEN strict = "1" ELSE FALSE

load_model(st, mode, model_id, strict, outs) ==
    LET resolved_mode  == resolve_mode(mode)
        resolved_model == resolve_model(resolved_mode, model_id)
    IN  IF resolved_model = KeyError
        THEN [st |-> st, log |-> <<>>, ret |-> KeyError]
        ELSE IF AlreadyLoaded(st, resolved_mode, resolved_model)
        THEN [st |-> st, log |-> <<>>, ret |-> "True"]
        ELSE LoadLoop(st,
                      candidates_for_mode(resolved_mode, resolved_model,
                                          strict_load(strict), ALLOW_CROSS_MODE_FALLBACK),
                      outs, 1)

\* unload_model without lines 363-364
unload_model_keeps_pair(st) ==
    [st |-> [Unloaded EXCEPT !.mode = st.mode, !.model_id = st.model_id],
     log |-> <<>>, ret |-> "True"]

unload_model(st) == [st |-> Unloaded, log |-> <<>>, ret |-> "True"]

ensure_loaded(st, mode, model_id, outs) ==
    IF AlreadyLoaded(st, mode, model_id)
    THEN [st |-> st, log |-> <<>>, ret |-> "True"]
    ELSE load_model(st, mode, model_id, "0", outs)

\* get_supported_speakers; `spk` is what the handle's own
\* get_supported_speakers does: "absent", "raise", "empty", "list"
SpeakerOutcomes == {"absent", "raise", "empty", "list"}

\* the list the handle's get_supported_speakers returns
SupportedSpeakers(spk) == IF spk = "list" THEN <<"ryan", "serena">> ELSE <<>>

\* one call made on the model handle and what it did
HandleCall(method, speaker, instruct, outcome) ==
    [method |-> method, speaker |-> speaker, instruct |-> instruct, outcome |-> outcome]

\* lines 400-401 and 499-504: the handle's get_supported_speakers, called if it
\* is callable
QuerySpeakers(spk) ==
    IF spk = "absent" THEN <<>>
    ELSE <<HandleCall("get_supported_speakers", NONE, FALSE, spk)>>

\* line 493 letting every mode through
has_speakers_any_mode(resolved_mode) == TRUE

\* line 493: the mode whose models enumerate speakers
has_speakers(resolved_mode) == resolved_mode = "custom_voice"

get_supported_speakers(st, mode, model_id, outs, spk) ==
    LET resolved_mode == resolve_mode(mode)
    IN  IF ~has_speakers(resolved_mode)
        THEN [st |-> st, log |-> <<>>, ret |-> "[]"]
        ELSE LET resolved_model == resolve_model(resolved_mode, model_id)
                 r == load_model(st, resolved_mode, resolved_model, "1", outs)
                 asked == [st |-> r.st, log |-> r.log, calls |-> QuerySpeakers(spk),
                           wav |-> NoWav,
                           ret |-> IF spk = "list" THEN "[ryan,serena]" ELSE "[]"]
             IN  IF r.ret \notin {"True", "False"} THEN r
                 ELSE IF r.ret = "False" THEN [r EXCEPT !.ret = "[]"]
                 ELSE IF r.st.handle = NoHandle THEN [r EXCEPT !.ret = "[]"]
                 ELSE asked

----------------------------------------------------------------------------
(* Synthesis, TTMService *)

DEFAULT_SPEAKER == "ryan"

\* what one generation call on the handle does: returns samples ("audio"),
\* returns no audio payload, raises TypeError, raises another error
GenOutcomes == {"audio", "noaudio", "typeerror", "raise"}

GenerateRaised == "raise:generate"
SpeakersRaised == "raise:get_supported_speakers"

\* the samples and the rate of a generation call that returns audio
ModelSamples == <<500, -2000>>
ModelSampleRate == 24000

\* a generation function's result: the calls made on the handle, what is
\* returned ("None" or "audio" with the bytes) or raised
Generated(calls, ret, w) == [calls |-> calls, ret |-> ret, wav |-> w]

\* lines 388-392, 420-425: the output of a generation call turned into bytes
EncodeOutput(calls, gen) ==
    CASE gen = "audio"   -> Generated(calls, "audio", to_wav_bytes(ModelSamples, ModelSampleRate))
      [] gen = "noaudio" -> Generated(calls, "None", NoWav)
      [] OTHER           -> Generated(calls, GenerateRaised, NoWav)

generate_voice_design(handle, gen) ==
    IF handle = NoHandle THEN Generated(<<>>, "None", NoWav)
    ELSE EncodeOutput(<<HandleCall("generate_voice_design", NONE, TRUE, gen)>>, gen)

\* lines 399-404 taking the requested speaker as given
resolve_speaker_as_given(speaker, spk) ==
    LET requested_speaker == Or(speaker, DEFAULT_SPEAKER)
        supported == SupportedSpeakers(spk)
    IN  IF spk # "absent" /\ supported # <<>> /\ requested_speaker \notin Range(supported)
        THEN supported[1] ELSE requested_speaker

\* lines 399-404: the speaker handed to generate_custom_voice
resolve_speaker(speaker, spk) ==
    LET requested_speaker == Lower(Or(speaker, DEFAULT_SPEAKER))
        supported == SupportedSpeakers(spk)
    IN  IF spk # "absent" /\ supported # <<>> /\ requested_speaker \notin Range(supported)
        THEN supported[1] ELSE requested_speaker

\* `gens` are the outcomes of the generate_custom_voice calls, by call order
generate_custom_voice(handle, speaker, instruct, spk, gens) ==
    IF handle = NoHandle THEN Generated(<<>>, "None", NoWav)
    ELSE IF spk = "raise" THEN Generated(QuerySpeakers(spk), SpeakersRaised, NoWav)
    ELSE LET requested_speaker == resolve_speaker(speaker, spk)
             first  == HandleCall("generate_custom_voice", requested_speaker,
                                  Truthy(instruct), gens[1])
             second == HandleCall("generate_custom_voice", requested_speaker,
                                  FALSE, gens[2])
         IN  IF gens[1] = "typeerror"
             THEN EncodeOutput(QuerySpeakers(spk) \o <<first, second>>, gens[2])
             ELSE EncodeOutput(QuerySpeakers(spk) \o <<first>>, gens[1])

\* the name tempfile.NamedTemporaryFile(suffix=".wav", delete=False) gives
REFERENCE_PATH == "tmp/reference.wav"

\* the methods a model handle may have for voice cloning
CloneMethods == {"generate_voice_clone", "generate_base"}

\* lines 440-465 with generate_base first
CloneCandidatesBaseFirst ==
    <<[method |-> "generate_base", kwarg |-> "prompt_audio"],
      [method |-> "generate_voice_clone", kwarg |-> "reference_audio"],
      [method |-> "generate_voice_clone", kwarg |-> "prompt_audio"]>>

\* lines 440-465: the method of each candidate and the keyword under which it
\* gets reference_path
CloneCandidates ==
    <<[method |-> "generate_voice_clone", kwarg |-> "reference_audio"],
      [method |-> "generate_voice_clone", kwarg |-> "prompt_audio"],
      [method |-> "generate_base", kwarg |-> "prompt_audio"]>>

\* the sample rate the handle reports with the audio of candidate i
CloneSampleRates == <<24000, 16000, 22050>>

\* line 473: candidate i called on the handle while the files `fs` exist
CloneCall(i, outcome, fs) ==
    [method |-> CloneCandidates[i].method, kwarg |-> CloneCandidates[i].kwarg,
     speaker |-> NONE, instruct |-> FALSE, outcome |-> outcome,
     path |-> REFERENCE_PATH, present |-> REFERENCE_PATH \in fs]

RECURSIVE CloneLoop(_, _, _, _)
\* lines 467-480 from candidate i on, and line 488: `methods` are the callable
\* attributes of the handle, gens[i] is what candidate i does when called
CloneLoop(methods, gens, i, fs) ==
    IF i > Len(CloneCandidates) THEN Generated(<<>>, "None", NoWav)
    ELSE IF CloneCandidates[i].method \notin methods
    THEN CloneLoop(methods, gens, i + 1, fs)
    ELSE LET this == <<CloneCall(i, gens[i], fs)>>
         IN  CASE gens[i] = "audio" ->
                    Generated(this, "audio",
                              to_wav_bytes(ModelSamples, CloneSampleRates[i]))
               [] gens[i] = "raise" -> Generated(this, GenerateRaised, NoWav)
               [] OTHER ->
                    LET rest == CloneLoop(methods, gens, i + 1, fs)
                    IN  [rest EXCEPT !.calls = this \o @]

\* the removal of lines 482-486 placed after the loop instead of in `finally`
RemoveReferenceAfterLoop(g, fs) ==
    IF g.ret = "None" THEN fs \ {REFERENCE_PATH} ELSE fs

\* lines 481-486: the `finally` clause, whatever the loop did
RemoveReference(g, fs) == fs \ {REFERENCE_PATH}

\* what _generate_voice_clone leaves: its result and the files that exist
Cloned(g, fs) == [calls |-> g.calls, ret |-> g.ret, wav |-> g.wav, files |-> fs]

\* _generate_voice_clone while the files `fs` exist
generate_voice_clone(handle, methods, gens, fs) ==
    IF handle = NoHandle THEN Cloned(Generated(<<>>, "None", NoWav), fs)
    ELSE LET written == fs \cup {REFERENCE_PATH}
             g == CloneLoop(methods, gens, 1, written)
         IN  Cloned(g, RemoveReference(g, written))

\* `not text.strip()` without the strip
text_is_empty_unstripped(text) == text = ""

\* `not text.strip()`
text_is_empty(text) == Strip(text) = ""

\* a synthesis call's result: the state it leaves, the _create_model calls and
\* the generation calls it made, what it returned or raised
Synthesized(st, log, calls, ret, w) ==
    [st |-> st, log |-> log, calls |-> calls, ret |-> ret, wav |-> w]

\* lines 525-532: what a synthesis call does with its generation result `g`
FinishSynthesis(e, g, sample_rate) ==
    IF g.ret \notin {"audio", "None"} THEN Synthesized(e.st, e.log, g.calls, g.ret, NoWav)
    ELSE IF g.ret = "audio" THEN Synthesized(e.st, e.log, g.calls, "audio", g.wav)
    ELSE IF ALLOW_FALLBACK
    THEN Synthesized(e.st, e.log, g.calls, "silence", silent_wav(sample_rate))
    ELSE Synthesized(e.st, e.log, g.calls, "raise:RuntimeError:synthesis", NoWav)

\* lines 515-523 (562-565 for the reference audio), shared by the three entry
\* points: validation, then _ensure_loaded; "ready" when generation comes next
begin_synthesis(st, resolved_mode, text, reference_audio, model_id, outs) ==
    IF text_is_empty(text)
    THEN Synthesized(st, <<>>, <<>>, "raise:ValueError:text", NoWav)
    ELSE IF resolved_mode = "voice_clone" /\ reference_audio = ""
    THEN Synthesized(st, <<>>, <<>>, "raise:ValueError:reference_audio", NoWav)
    ELSE LET resolved_model == resolve_model(resolved_mode, model_id)
             e == ensure_loaded(st, resolved_mode, resolved_model, outs)
         IN  IF e.ret \notin {"True", "False"}
             THEN Synthesized(e.st, e.log, <<>>, e.ret, NoWav)
             ELSE IF e.ret = "False"
             THEN Synthesized(e.st, e.log, <<>>, "raise:RuntimeError:unavailable", NoWav)
             ELSE Synthesized(e.st, e.log, <<>>, "ready", NoWav)

synthesize_voice_design(st, text, sample_rate, model_id, outs, gen) ==
    LET e == begin_synthesis(st, "voice_design", text, "", model_id, outs)
    IN  IF e.ret # "ready" THEN e
        ELSE FinishSynthesis(e, generate_voice_design(e.st.handle, gen), sample_rate)

synthesize_custom_voice(st, text, speaker, instruct, sample_rate, model_id, outs, spk, gens) ==
    LET e == begin_synthesis(st, "custom_voice", text, "", model_id, outs)
    IN  IF e.ret # "ready" THEN e
        ELSE FinishSynthesis(e, generate_custom_voice(e.st.handle,
                                                      Or(speaker, DEFAULT_SPEAKER),
                                                      instruct, spk, gens),
                             sample_rate)

synthesize_voice_clone(st, text, reference_audio, sample_rate, model_id, outs, cl, fs) ==
    LET e == begin_synthesis(st, "voice_clone", text, reference_audio, model_id, outs)
        g == generate_voice_clone(e.st.handle, cl.methods, cl.gens, fs)
        f == FinishSynthesis(e, g, sample_rate)
    IN  IF e.ret # "ready" THEN e
        ELSE [st |-> f.st, log |-> f.log, calls |-> f.calls, ret |-> f.ret,
              wav |-> f.wav, files |-> g.files]

TextInputs == {"", "  ", "hello"}
ReferenceInputs == {"", "RIFF"}
SpeakerInputs == {"", "Serena", "unknown-speaker"}
InstructInputs == {"", "calm"}
SynthSampleRates == {1, 180}

\* The outcomes of the generate_custom_voice calls of one call, by call order:
\* the second is made only after the first raised TypeError.
GenSeqs ==
    {<<a, "noaudio">> : a \in GenOutcomes \ {"typeerror"}}
    \cup {<<"typeerror", b>> : b \in GenOutcomes}

\* What a handle does for voice cloning: the methods it has, and what each
\* candidate does when called.  A candidate after the first that returns
\* audio or raises another error than TypeError is never called, so those
\* positions are fixed.
CloneGens ==
    {gens \in [1..Len(CloneCandidates) -> GenOutcomes] :
        \A i, j \in 1..Len(CloneCandidates) :
            (i < j /\ gens[i] \in {"audio", "raise"}) => gens[j] = "noaudio"}

NoCloneAnswer == [methods |-> {}, gens |-> <<"noaudio", "noaudio", "noaudio">>]

\* the handles drawn for a synthesis call: one with both methods whose first
\* candidate returns audio, yields none or raises, one of an older build
\* that rejects the first keyword, one with generate_base only
SynthClones ==
    {[methods |-> CloneMethods, gens |-> <<o, "noaudio", "noaudio">>] :
        o \in {"audio", "noaudio", "raise"}}
    \cup {[methods |-> CloneMethods, gens |-> <<"typeerror", "audio", "noaudio">>],
          [methods |-> {"generate_base"}, gens |-> <<"noaudio", "noaudio", "audio">>]}

----------------------------------------------------------------------------
(* Model lifecycle and synthesis, TTMPythonBridge (single mode) *)

BridgeState == [loaded |-> Bridge_MODEL_LOADED, handle |-> Bridge_QWEN_MODEL]

BridgeUnloaded == [loaded |-> FALSE, handle |-> NoHandle]

\* _MODEL_MODE / _MODEL_ID defaults
Bridge_MODEL_MODE == "custom_voice"
Bridge_MODEL_ID == DEFAULT_CUSTOM_VOICE_MODEL

Bridge_load_model(st, outcome) ==
    IF st.loaded /\ st.handle # NoHandle
    THEN [st |-> st, log |-> <<>>, ret |-> "True"]
    ELSE LET created == create_model(Bridge_MODEL_MODE, Bridge_MODEL_ID, outcome)
             entry == [mode |-> Bridge_MODEL_MODE, model |-> Bridge_MODEL_ID,
                       outcome |-> outcome]
         IN  IF created.raised
             THEN [st |-> st, log |-> <<entry>>, ret |-> CreateRaised]
             ELSE IF created.value = NoHandle
             THEN [st |-> BridgeUnloaded, log |-> <<entry>>, ret |-> Bool(ALLOW_FALLBACK)]
             ELSE [st |-> [loaded |-> TRUE, handle |-> created.value],
                   log |-> <<entry>>, ret |-> "True"]

Bridge_unload_model(st) == [st |-> BridgeUnloaded, log |-> <<>>, ret |-> "True"]

Bridge_is_model_loaded(st) == [st |-> st, log |-> <<>>, ret |-> Bool(st.loaded)]

Bridge_DEFAULT_SPEAKER == "serena"

\* _generate_with_qwen in the custom_voice branch
Bridge_generate_with_qwen(handle, voice, spk, gen) ==
    IF handle = NoHandle THEN Generated(<<>>, "None", NoWav)
    ELSE IF spk = "raise" THEN Generated(<<>>, SpeakersRaised, NoWav)
    ELSE EncodeOutput(QuerySpeakers(spk)
                      \o <<HandleCall("generate_custom_voice",
                                      resolve_speaker(Or(voice, Bridge_DEFAULT_SPEAKER), spk),
                                      FALSE, gen)>>, gen)

\* lines 288-292: validation, then load_model unless is_model_loaded()
Bridge_begin_synthesis(st, text, outcome) ==
    IF text_is_empty(text)
    THEN Synthesized(st, <<>>, <<>>, "raise:ValueError:text", NoWav)
    ELSE LET l == IF st.loaded THEN [st |-> st, log |-> <<>>, ret |-> "True"]
                  ELSE Bridge_load_model(st, outcome)
         IN  IF l.ret \notin {"True", "False"}
             THEN Synthesized(l.st, l.log, <<>>, l.ret, NoWav)
             ELSE IF l.ret = "False"
             THEN Synthesized(l.st, l.log, <<>>, "raise:RuntimeError:unavailable", NoWav)
             ELSE Synthesized(l.st, l.log, <<>>, "ready", NoWav)

Bridge_synthesize(st, text, voice, sample_rate, outcome, spk, gen) ==
    LET l == Bridge_begin_synthesis(st, text, outcome)
    IN  IF l.ret # "ready" THEN l
        ELSE FinishSynthesis(l, Bridge_generate_with_qwen(l.st.handle, voice, spk, gen),
                             sample_rate)

----------------------------------------------------------------------------
(* The public calls as actions: a call runs to completion, leaving what it  *)
(* was, the _create_model calls it made and its result for the caller, who  *)
(* takes them (Return) before the next call starts.                         *)

Idle == call = NoCall

\* the module is imported and no call is running
ServiceReady == Idle /\ runner = "TTMService"
BridgeReady  == Idle /\ runner = "TTMPythonBridge"

NoPair == <<NONE, NONE>>

\* the call just made was not the repetition of the one before it
NoPreceding == [active |-> NoPair, attempts |-> 0]

\* the generation calls and the WAV of a call's result, if it is a synthesis
Calls(r)   == IF "calls" \in DOMAIN r THEN r.calls ELSE <<>>
WavOf(r)   == IF "wav" \in DOMAIN r THEN r.wav ELSE NoWav

\* the files that exist after a call: only voice cloning touches them
FilesOf(r, fs) == IF "files" \in DOMAIN r THEN r.files ELSE fs

\* the state right after import of both modules
ImportState ==
    /\ MODEL_LOADED = FALSE
    /\ QWEN_MODEL = NoHandle
    /\ ACTIVE_MODE = NONE
    /\ ACTIVE_MODEL_ID = NONE
    /\ Bridge_MODEL_LOADED = FALSE
    /\ Bridge_QWEN_MODEL = NoHandle
    /\ call = NoCall
    /\ attempted = <<>>
    /\ result = NONE
    /\ generated = <<>>
    /\ wav = NoWav
    /\ released = NoPair
    /\ preceding = NoPreceding
    /\ files = {}
    /\ pc = IdlePc
    /\ frame = NoFrame
    /\ overlapped = FALSE

\* a call `c` of the service module ran to completion as `r`
Completes(c, r) ==
    /\ MODEL_LOADED' = r.st.loaded
    /\ QWEN_MODEL' = r.st.handle
    /\ ACTIVE_MODE' = r.st.mode
    /\ ACTIVE_MODEL_ID' = r.st.model_id
    /\ call' = c
    /\ attempted' = r.log
    /\ result' = r.ret
    /\ generated' = Calls(r)
    /\ wav' = WavOf(r)
    /\ released' = CASE c.op = "unload_model" -> <<ACTIVE_MODE, ACTIVE_MODEL_ID>>
                     [] c.op = "load_model"   -> released
                     [] OTHER                 -> NoPair
    /\ preceding' = IF Idle THEN NoPreceding
                    ELSE [active |-> <<ACTIVE_MODE, ACTIVE_MODEL_ID>>,
                          attempts |-> Len(attempted)]
    /\ files' = FilesOf(r, files)
    /\ UNCHANGED <<cfg_vars, bridge_vars, step_vars, cand_vars, wav_vars, clone_vars>>

\* a call `c` of the bridge module ran to completion as `r`
BridgeCompletes(c, r) ==
    /\ Bridge_MODEL_LOADED' = r.st.loaded
    /\ Bridge_QWEN_MODEL' = r.st.handle
    /\ call' = c
    /\ attempted' = r.log
    /\ result' = r.ret
    /\ generated' = Calls(r)
    /\ wav' = WavOf(r)
    /\ released' = NoPair
    /\ preceding' = NoPreceding
    /\ UNCHANGED <<cfg_vars, service_vars, step_vars, cand_vars, wav_vars, files,
                   clone_vars>>

Return ==
    /\ ~Idle
    /\ call' = NoCall
    /\ attempted' = <<>>
    /\ result' = NONE
    /\ generated' = <<>>
    /\ wav' = NoWav
    /\ released' = IF call.op = "unload_model" THEN released ELSE NoPair
    /\ preceding' = NoPreceding
    /\ UNCHANGED <<cfg_vars, service_vars, bridge_vars, step_vars, cand_vars, wav_vars,
                   files, clone_vars>>

LoadModel ==
    /\ ServiceReady
    /\ \E mode \in ModeInputs, model_id \in ModelInputs, strict \in StrictInputs,
          outs \in OutcomeSeqs :
           Completes([op |-> "load_model", mode |-> mode, model_id |-> model_id,
                      strict |-> strict],
                     load_model(ServiceState, mode, model_id, strict, outs))

UnloadModel ==
    /\ ServiceReady
    /\ Completes([op |-> "unload_model"], unload_model(ServiceState))

IsModelLoaded ==
    /\ ServiceReady
    /\ Completes([op |-> "is_model_loaded"], is_model_loaded(ServiceState))

EnsureLoaded ==
    /\ ServiceReady
    /\ \E mode \in DOMAIN MODEL_REGISTRY, model_id \in CandModels \ {""},
          outs \in OutcomeSeqs :
           Completes([op |-> "_ensure_loaded", mode |-> mode, model_id |-> model_id],
                     ensure_loaded(ServiceState, mode, model_id, outs))

\* whether a synthesis call with these arguments and _create_model outcomes
\* comes to call the handle
AsksHandle(e) == e.ret = "ready" /\ e.st.handle # NoHandle

\* What the handle answers is drawn only when the call comes to ask it.
SpeakerAnswers(asked) == IF asked THEN SpeakerOutcomes ELSE {"absent"}
GenAnswers(asked)     == IF asked THEN GenOutcomes ELSE {"noaudio"}
GenSeqAnswers(asked)  == IF asked THEN GenSeqs ELSE {<<"noaudio", "noaudio">>}
CloneAnswers(asked)   == IF asked THEN SynthClones ELSE {NoCloneAnswer}

GetSupportedSpeakers ==
    /\ ServiceReady
    /\ \E mode \in ModeInputs, model_id \in ModelInputs, outs \in OutcomeSeqs :
        \E spk \in SpeakerAnswers(
                    get_supported_speakers(ServiceState, mode, model_id, outs, "list").ret
                    = "[ryan,serena]") :
           Completes([op |-> "get_supported_speakers", mode |-> mode,
                      model_id |-> model_id],
                     get_supported_speakers(ServiceState, mode, model_id, outs, spk))

SynthesizeVoiceDesign ==
    /\ ServiceReady
    /\ \E text \in TextInputs, sample_rate \in SynthSampleRates,
          model_id \in SynthModelInputs, outs \in SynthOutcomeSeqs :
        \E gen \in GenAnswers(AsksHandle(
                    begin_synthesis(ServiceState, "voice_design", text, "", model_id,
                                    outs))) :
           Completes([op |-> "synthesize_voice_design", text |-> text,
                      sample_rate |-> sample_rate, model_id |-> model_id],
                     synthesize_voice_design(ServiceState, text, sample_rate, model_id,
                                             outs, gen))

SynthesizeCustomVoice ==
    /\ ServiceReady
    /\ \E text \in TextInputs, speaker \in SpeakerInputs, instruct \in InstructInputs,
          sample_rate \in SynthSampleRates, model_id \in SynthModelInputs,
          outs \in SynthOutcomeSeqs :
        LET asked == AsksHandle(begin_synthesis(ServiceState, "custom_voice", text, "",
                                                model_id, outs))
        IN  \E spk \in SpeakerAnswers(asked) :
            \E gens \in GenSeqAnswers(asked /\ spk # "raise") :
               Completes([op |-> "synthesize_custom_voice", text |-> text,
                          speaker |-> speaker,
                          instruct |-> instruct, sample_rate |-> sample_rate,
                          model_id |-> model_id],
                         synthesize_custom_voice(ServiceState, text, speaker, instruct,
                                                 sample_rate, model_id, outs, spk, gens))

SynthesizeVoiceClone ==
    /\ ServiceReady
    /\ \E text \in TextInputs, reference_audio \in ReferenceInputs,
          sample_rate \in SynthSampleRates, model_id \in SynthModelInputs,
          outs \in SynthOutcomeSeqs :
        \E cl \in CloneAnswers(AsksHandle(
                    begin_synthesis(ServiceState, "voice_clone", text, reference_audio,
                                    model_id, outs))) :
           Completes([op |-> "synthesize_voice_clone", text |-> text,
                      reference_audio |-> reference_audio, sample_rate |-> sample_rate,
                      model_id |-> model_id],
                     synthesize_voice_clone(ServiceState, text, reference_audio,
                                            sample_rate, model_id, outs, cl, files))

BridgeLoadModel ==
    /\ BridgeReady
    /\ \E outcome \in Outcomes :
           BridgeCompletes([op |-> "Bridge.load_model"],
                           Bridge_load_model(BridgeState, outcome))

BridgeUnloadModel ==
    /\ BridgeReady
    /\ BridgeCompletes([op |-> "Bridge.unload_model"], Bridge_unload_model(BridgeState))

BridgeIsModelLoaded ==
    /\ BridgeReady
    /\ BridgeCompletes([op |-> "Bridge.is_model_loaded"],
                       Bridge_is_model_loaded(BridgeState))

BridgeSynthesize ==
    /\ BridgeReady
    /\ \E text \in TextInputs, voice \in SpeakerInputs, sample_rate \in SynthSampleRates,
          outcome \in Outcomes :
        LET asked == AsksHandle(Bridge_begin_synthesis(BridgeState, text, outcome))
        IN  \E spk \in SpeakerAnswers(asked) :
            \E gen \in GenAnswers(asked /\ spk # "raise") :
               BridgeCompletes([op |-> "Bridge.synthesize", text |-> text,
                                speaker |-> voice,
                                sample_rate |-> sample_rate],
                               Bridge_synthesize(BridgeState, text, voice, sample_rate,
                                                 outcome, spk, gen))

----------------------------------------------------------------------------
(* load_model, unload_model and _ensure_loaded statement by statement, as   *)
(* the threads of Procs execute them under the interpreter lock: a thread   *)
(* switch may fall between any two statements.  Here a created model carries *)
(* a serial that tells two instantiations of the same pair apart.           *)

\* the model objects referenced by the global or by a local `model`
HeldHandles == ({QWEN_MODEL} \cup {frame[p].model : p \in Procs}) \ {NoHandle}

FreshSerial ==
    CHOOSE n \in 1..(Cardinality(Procs) + 2) : \A h \in HeldHandles : h.serial # n

StepModes   == {"voice_design", "custom_voice"}
StepModels  == {NONE}
StepStricts == {NONE, "1"}

Goto(p, label) == pc' = [pc EXCEPT ![p] = label]
Returns(p) == pc' = [pc EXCEPT ![p] = "idle"] /\ frame' = [frame EXCEPT ![p] = IdleFrame]
StepFrame ==
    UNCHANGED <<cfg_vars, bridge_vars, call_vars, cand_vars, wav_vars, files, clone_vars>>

\* a thread enters load_model (lines 324-327), unload_model or _ensure_loaded
SCall(p) ==
    /\ pc[p] = "idle"
    /\ overlapped' = (overlapped \/ \E q \in Procs \ {p} : pc[q] # "idle")
    /\ \/ \E mode \in StepModes, model_id \in StepModels, strict \in StepStricts :
            /\ frame' = [frame EXCEPT ![p] =
                    [IdleFrame EXCEPT !.op = "load_model",
                                      !.mode = resolve_mode(mode),
                                      !.model_id = resolve_model(resolve_mode(mode), model_id),
                                      !.strict = strict_load(strict)]]
            /\ Goto(p, "check")
       \/ /\ frame' = [frame EXCEPT ![p] = [IdleFrame EXCEPT !.op = "unload_model"]]
          /\ Goto(p, "clear_model")
       \/ \E mode \in StepModes, m \in StepModels :
            LET model_id == resolve_model(mode, m) IN
            /\ frame' = [frame EXCEPT ![p] =
                    [IdleFrame EXCEPT !.op = "_ensure_loaded",
                                      !.mode = mode, !.model_id = model_id]]
            /\ Goto(p, "ensure_check")
    /\ UNCHANGED service_vars
    /\ StepFrame

\* line 373, and the call of line 375
SEnsureCheck(p) ==
    /\ pc[p] = "ensure_check"
    /\ IF AlreadyLoaded(ServiceState, frame[p].mode, frame[p].model_id)
       THEN Returns(p)
       ELSE /\ frame' = [frame EXCEPT ![p] =
                    [IdleFrame EXCEPT !.op = "load_model",
                                      !.mode = resolve_mode(frame[p].mode),
                                      !.model_id = resolve_model(resolve_mode(frame[p].mode),
                                                                 frame[p].model_id),
                                      !.strict = strict_load("0")]]
            /\ Goto(p, "check")
    /\ UNCHANGED <<service_vars, overlapped>>
    /\ StepFrame

\* lines 329-333
SCheck(p) ==
    /\ pc[p] = "check"
    /\ IF AlreadyLoaded(ServiceState, frame[p].mode, frame[p].model_id)
       THEN Returns(p)
       ELSE /\ frame' = [frame EXCEPT ![p].cands =
                    candidates_for_mode(frame[p].mode, frame[p].model_id,
                                        frame[p].strict, ALLOW_CROSS_MODE_FALLBACK),
                                      ![p].i = 1]
            /\ Goto(p, "create")
    /\ UNCHANGED <<service_vars, overlapped>>
    /\ StepFrame

\* lines 333-339: the next iteration's _create_model call, or the loop's end
SCreate(p) ==
    /\ pc[p] = "create"
    /\ LET f == frame[p]
       IN  IF f.i > Len(f.cands)
           THEN Goto(p, "clear_model") /\ UNCHANGED frame
           ELSE \E outcome \in Outcomes :
                LET created == create_model(f.cands[f.i][1], f.cands[f.i][2], outcome)
                IN  IF created.raised THEN Returns(p)
                    ELSE IF created.value = NoHandle
                    THEN frame' = [frame EXCEPT ![p].i = f.i + 1] /\ UNCHANGED pc
                    ELSE /\ frame' = [frame EXCEPT ![p].model =
                                [mode |-> created.value.mode, model |-> created.value.model,
                                 serial |-> FreshSerial]]
                         /\ Goto(p, "store_model")
    /\ UNCHANGED <<service_vars, overlapped>>
    /\ StepFrame

\* line 343 writing the requested mode
StoredModeRequested(f) == f.mode

\* the value line 343 writes
StoredMode(f) == f.cands[f.i][1]

\* line 341
SStoreModel(p) ==
    /\ pc[p] = "store_model"
    /\ QWEN_MODEL' = frame[p].model
    /\ Goto(p, "store_loaded")
    /\ UNCHANGED <<MODEL_LOADED, ACTIVE_MODE, ACTIVE_MODEL_ID, frame, overlapped>>
    /\ StepFrame

\* line 342
SStoreLoaded(p) ==
    /\ pc[p] = "store_loaded"
    /\ MODEL_LOADED' = TRUE
    /\ Goto(p, "store_mode")
    /\ UNCHANGED <<QWEN_MODEL, ACTIVE_MODE, ACTIVE_MODEL_ID, frame, overlapped>>
    /\ StepFrame

\* line 343
SStoreMode(p) ==
    /\ pc[p] = "store_mode"
    /\ ACTIVE_MODE' = StoredMode(frame[p])
    /\ Goto(p, "store_model_id")
    /\ UNCHANGED <<QWEN_MODEL, MODEL_LOADED, ACTIVE_MODEL_ID, frame, overlapped>>
    /\ StepFrame

\* lines 344-346
SStoreModelId(p) ==
    /\ pc[p] = "store_model_id"
    /\ ACTIVE_MODEL_ID' = frame[p].cands[frame[p].i][2]
    /\ Returns(p)
    /\ UNCHANGED <<QWEN_MODEL, MODEL_LOADED, ACTIVE_MODE, overlapped>>
    /\ StepFrame

\* lines 348 and 361
SClearModel(p) ==
    /\ pc[p] = "clear_model"
    /\ QWEN_MODEL' = NoHandle
    /\ Goto(p, "clear_loaded")
    /\ UNCHANGED <<MODEL_LOADED, ACTIVE_MODE, ACTIVE_MODEL_ID, frame, overlapped>>
    /\ StepFrame

\* lines 349 and 362
SClearLoaded(p) ==
    /\ pc[p] = "clear_loaded"
    /\ MODEL_LOADED' = FALSE
    /\ Goto(p, "clear_mode")
    /\ UNCHANGED <<QWEN_MODEL, ACTIVE_MODE, ACTIVE_MODEL_ID, frame, overlapped>>
    /\ StepFrame

\* lines 350 and 363
SClearMode(p) ==
    /\ pc[p] = "clear_mode"
    /\ ACTIVE_MODE' = NONE
    /\ Goto(p, "clear_model_id")
    /\ UNCHANGED <<QWEN_MODEL, MODEL_LOADED, ACTIVE_MODEL_ID, frame, overlapped>>
    /\ StepFrame

\* lines 351-352 and 364-365
SClearModelId(p) ==
    /\ pc[p] = "clear_model_id"
    /\ ACTIVE_MODEL_ID' = NONE
    /\ Returns(p)
    /\ UNCHANGED <<QWEN_MODEL, MODEL_LOADED, ACTIVE_MODE, overlapped>>
    /\ StepFrame

Step(p) ==
    \/ SCall(p)
    \/ SEnsureCheck(p)
    \/ SCheck(p)
    \/ SCreate(p)
    \/ SStoreModel(p)
    \/ SStoreLoaded(p)
    \/ SStoreMode(p)
    \/ SStoreModelId(p)
    \/ SClearModel(p)
    \/ SClearLoaded(p)
    \/ SClearMode(p)
    \/ SClearModelId(p)

InitStep ==
    /\ ImportState
    /\ runner = "TTMService"
    /\ DEFAULT_MODE = "voice_design"
    /\ ALLOW_FALLBACK = FALSE
    /\ ALLOW_CROSS_MODE_FALLBACK \in BOOLEAN
    /\ cand_in = [mode |-> "voice_design", requested_model |-> "", strict |-> FALSE]
    /\ cand_out = <<<<"?", "?">>>>
    /\ wav_in = NoWavIn
    /\ wav_out = NoWav
    /\ clone_in = NoCloneIn
    /\ clone_out = NoClone

\* SpecConc: the threads interleave freely
NextConc == \E p \in Procs : Step(p)
SpecConc == InitStep /\ [][NextConc]_vars

\* SpecSeq: a call starts only when no other call is running
NextSeq == \E p \in Procs : (\A q \in Procs \ {p} : pc[q] = "idle") /\ Step(p)
SpecSeq == InitStep /\ [][NextSeq]_vars

----------------------------------------------------------------------------
(* SpecCand: _candidates_for_mode on every drawn input *)

NoCand == <<<<"?", "?">>>>

InitCand ==
    /\ ImportState
    /\ runner = "TTMService"
    /\ DEFAULT_MODE = "voice_design"
    /\ ALLOW_FALLBACK = FALSE
    /\ ALLOW_CROSS_MODE_FALLBACK \in BOOLEAN
    /\ cand_in \in [mode : CandModes, requested_model : CandModels, strict : BOOLEAN]
    /\ cand_out = NoCand
    /\ wav_in = NoWavIn
    /\ wav_out = NoWav
    /\ clone_in = NoCloneIn
    /\ clone_out = NoClone

ApplyCandidates ==
    /\ cand_out = NoCand
    /\ cand_out' = candidates_for_mode(cand_in.mode, cand_in.requested_model,
                                       cand_in.strict, ALLOW_CROSS_MODE_FALLBACK)
    /\ UNCHANGED <<cfg_vars, service_vars, bridge_vars, call_vars, step_vars, cand_in,
                   wav_vars, files, clone_vars>>

NextCand == ApplyCandidates

SpecCand == InitCand /\ [][NextCand]_vars

----------------------------------------------------------------------------
(* SpecWav: _to_wav_bytes and _silent_wav on every drawn input *)

\* the longest sample list drawn
MaxSamples == 2

\* samples inside, on and outside [-1, 1]
SampleInputs == {-2000, -1000, -500, -1, 0, 1, 500, 1000, 1500}

WavSampleRates == {1, 20, 180, 24000, 44100}

SampleLists == UNION {[1..n -> SampleInputs] : n \in 0..MaxSamples}

InitWav ==
    /\ ImportState
    /\ runner = "TTMService"
    /\ DEFAULT_MODE = "voice_design"
    /\ ALLOW_FALLBACK = FALSE
    /\ ALLOW_CROSS_MODE_FALLBACK = TRUE
    /\ cand_in = [mode |-> "voice_design", requested_model |-> "", strict |-> FALSE]
    /\ cand_out = NoCand
    /\ \/ wav_in \in [op : {"_to_wav_bytes"}, samples : SampleLists,
                       sample_rate : {ModelSampleRate}]
       \/ wav_in \in [op : {"_silent_wav"}, samples : {<<>>},
                       sample_rate : WavSampleRates]
    /\ wav_out = NoWav
    /\ clone_in = NoCloneIn
    /\ clone_out = NoClone

ApplyToWav ==
    /\ wav_in.op = "_to_wav_bytes"
    /\ wav_out = NoWav
    /\ wav_out' = to_wav_bytes(wav_in.samples, wav_in.sample_rate)
    /\ UNCHANGED <<cfg_vars, service_vars, bridge_vars, call_vars, step_vars, cand_vars,
                   wav_in, files, clone_vars>>

ApplySilentWav ==
    /\ wav_in.op = "_silent_wav"
    /\ wav_out = NoWav
    /\ wav_out' = silent_wav(wav_in.sample_rate)
    /\ UNCHANGED <<cfg_vars, service_vars, bridge_vars, call_vars, step_vars, cand_vars,
                   wav_in, files, clone_vars>>

NextWav == ApplyToWav \/ ApplySilentWav

SpecWav == InitWav /\ [][NextWav]_vars

----------------------------------------------------------------------------
(* SpecClone: _generate_voice_clone on every drawn handle *)

\* _QWEN_MODEL when _generate_voice_clone is called: None or a model
CloneHandles ==
    {NoHandle, [mode |-> "voice_clone", model |-> DEFAULT_VOICE_CLONE_MODEL]}

InitClone ==
    /\ ImportState
    /\ runner = "TTMService"
    /\ DEFAULT_MODE = "voice_design"
    /\ ALLOW_FALLBACK = FALSE
    /\ ALLOW_CROSS_MODE_FALLBACK = TRUE
    /\ cand_in = [mode |-> "voice_design", requested_model |-> "", strict |-> FALSE]
    /\ cand_out = NoCand
    /\ wav_in = NoWavIn
    /\ wav_out = NoWav
    /\ clone_in \in [handle : CloneHandles, methods : SUBSET CloneMethods,
                     gens : CloneGens]
    /\ clone_out = NoClone

ApplyVoiceClone ==
    /\ clone_out = NoClone
    /\ clone_out' = generate_voice_clone(clone_in.handle, clone_in.methods,
                                         clone_in.gens, files)
    /\ files' = clone_out'.files
    /\ UNCHANGED <<cfg_vars, service_vars, bridge_vars, call_vars, step_vars, cand_vars,
                   wav_vars, clone_in>>

NextClone == ApplyVoiceClone

SpecClone == InitClone /\ [][NextClone]_vars

----------------------------------------------------------------------------
(* Spec: the public calls, one at a time, each run to completion *)

Init ==
    /\ ImportState
    /\ runner \in {"TTMService", "TTMPythonBridge"}
    /\ DEFAULT_MODE \in DefaultModes
    /\ ALLOW_FALLBACK \in BOOLEAN
    /\ ALLOW_CROSS_MODE_FALLBACK \in BOOLEAN
    /\ cand_in = [mode |-> "voice_design", requested_model |-> "", strict |-> FALSE]
    /\ cand_out = NoCand
    /\ wav_in = NoWavIn
    /\ wav_out = NoWav
    /\ clone_in = NoCloneIn
    /\ clone_out = NoClone

Next ==
    \/ LoadModel
    \/ UnloadModel
    \/ IsModelLoaded
    \/ EnsureLoaded
    \/ GetSupportedSpeakers
    \/ SynthesizeVoiceDesign
    \/ SynthesizeCustomVoice
    \/ SynthesizeVoiceClone
    \/ BridgeLoadModel
    \/ BridgeUnloadModel
    \/ BridgeIsModelLoaded
    \/ BridgeSynthesize
    \/ Return

Spec == Init /\ [][Next]_vars

----------------------------------------------------------------------------
(* SpecRepeat: a loading call, and the caller making the same call again *)

\* the caller takes the result of a load_model call and calls again with the
\* same arguments; the call after a repeated one is a call like any other
RepeatLoadModel ==
    /\ runner = "TTMService"
    /\ call.op = "load_model"
    /\ preceding = NoPreceding
    /\ \E outs \in OutcomeSeqs :
           Completes(call, load_model(ServiceState, call.mode, call.model_id,
                                      call.strict, outs))

RepeatEnsureLoaded ==
    /\ runner = "TTMService"
    /\ call.op = "_ensure_loaded"
    /\ preceding = NoPreceding
    /\ \E outs \in OutcomeSeqs :
           Completes(call, ensure_loaded(ServiceState, call.mode, call.model_id, outs))

RepeatSynthesizeVoiceDesign ==
    /\ runner = "TTMService"
    /\ call.op = "synthesize_voice_design"
    /\ preceding = NoPreceding
    /\ \E outs \in SynthOutcomeSeqs :
        \E gen \in GenAnswers(AsksHandle(
                    begin_synthesis(ServiceState, "voice_design", call.text, "",
                                    call.model_id, outs))) :
           Completes(call,
                     synthesize_voice_design(ServiceState, call.text, call.sample_rate,
                                             call.model_id, outs, gen))

\* the environment's defaults, with and without cross-mode fallback
InitRepeat ==
    /\ Init
    /\ runner = "TTMService"
    /\ DEFAULT_MODE = "voice_design"
    /\ ALLOW_FALLBACK = FALSE

NextRepeat ==
    \/ LoadModel
    \/ EnsureLoaded
    \/ SynthesizeVoiceDesign
    \/ RepeatLoadModel
    \/ RepeatEnsureLoaded
    \/ RepeatSynthesizeVoiceDesign
    \/ Return

SpecRepeat == InitRepeat /\ [][NextRepeat]_vars

----------------------------------------------------------------------------
(* Properties *)

IsLoadCall == call.op = "load_model"

\* the (mode, model id) a loading call asks for, from its arguments: the mode
\* it names (or fixes), the override when non-empty after trimming, else the
\* mode's first registry entry
RequestedMode ==
    CASE call.op \in {"load_model", "get_supported_speakers"} -> resolve_mode(call.mode)
      [] call.op = "_ensure_loaded"          -> call.mode
      [] call.op = "synthesize_voice_design" -> "voice_design"
      [] call.op = "synthesize_custom_voice" -> "custom_voice"
      [] call.op = "synthesize_voice_clone"  -> "voice_clone"

RequestedModel ==
    LET trimmed == IF call.model_id = NONE THEN "" ELSE Strip(call.model_id)
    IN  IF trimmed # "" THEN trimmed
        ELSE IF RequestedMode \in DOMAIN MODEL_REGISTRY
        THEN MODEL_REGISTRY[RequestedMode][1]
        ELSE KeyError

RequestedStrict ==
    CASE call.op = "load_model"             -> call.strict = "1"
      [] call.op = "get_supported_speakers" -> TRUE
      [] OTHER                              -> FALSE

LoadingOps == {"load_model", "_ensure_loaded", "get_supported_speakers",
               "synthesize_voice_design", "synthesize_custom_voice",
               "synthesize_voice_clone"}

\* C1: whenever a handle is held, the recorded active (mode, model id) is the
\* candidate pair whose instantiation produced that handle.
C1_ActiveMatchesHandle ==
    QWEN_MODEL # NoHandle =>
        /\ ACTIVE_MODE = QWEN_MODEL.mode
        /\ ACTIVE_MODEL_ID = QWEN_MODEL.model

\* a load that succeeded through a later candidate of another mode
C1_Witness ==
    /\ IsLoadCall
    /\ result = "True"
    /\ Len(attempted) >= 2
    /\ QWEN_MODEL # NoHandle
    /\ ACTIVE_MODE # RequestedMode

\* C2: load / _ensure_loaded called while Loaded with the very pair they ask
\* for return success, make no _create_model call and leave the four fields
\* as they were; the bridge's load_model does so whenever a model is loaded.
C2_ShortCircuit ==
    [][ /\ (/\ ServiceReady
            /\ call'.op \in {"load_model", "_ensure_loaded"}
            /\ MODEL_LOADED /\ QWEN_MODEL # NoHandle
            /\ ACTIVE_MODE = RequestedMode'
            /\ ACTIVE_MODEL_ID = RequestedModel')
           => (result' = "True" /\ attempted' = <<>> /\ UNCHANGED service_vars)
        /\ (/\ BridgeReady
            /\ call'.op = "Bridge.load_model"
            /\ Bridge_MODEL_LOADED /\ Bridge_QWEN_MODEL # NoHandle)
           => (result' = "True" /\ attempted' = <<>> /\ UNCHANGED bridge_vars)
      ]_vars

\* a load_model call that found its pair loaded
C2_Witness ==
    /\ IsLoadCall
    /\ MODEL_LOADED /\ QWEN_MODEL # NoHandle
    /\ ACTIVE_MODE = RequestedMode
    /\ ACTIVE_MODEL_ID = RequestedModel
    /\ attempted = <<>>
    /\ result = "True"

\* the candidate list of the call just made
CallCandidates ==
    candidates_for_mode(RequestedMode, RequestedModel, RequestedStrict,
                        ALLOW_CROSS_MODE_FALLBACK)

\* C3: the _create_model calls of a load follow the candidate list from its
\* first entry, each made only after all before it returned no handle; the
\* first one that yields a handle ends the load, which then holds that
\* handle, is Loaded with that candidate's own pair and returns success.
C3_OrderedFirstSuccess ==
    (call.op \in {"load_model", "_ensure_loaded"} /\ attempted # <<>>) =>
        /\ Len(attempted) <= Len(CallCandidates)
        /\ \A i \in 1..Len(attempted) :
              /\ <<attempted[i].mode, attempted[i].model>> = CallCandidates[i]
              /\ i < Len(attempted) => attempted[i].outcome = "none"
        /\ attempted[Len(attempted)].outcome = "ok" =>
              LET last == attempted[Len(attempted)]
              IN  /\ result = "True"
                  /\ MODEL_LOADED
                  /\ QWEN_MODEL = [mode |-> last.mode, model |-> last.model]
                  /\ ACTIVE_MODE = last.mode
                  /\ ACTIVE_MODEL_ID = last.model

\* a fallback of another mode than the one asked for succeeded third or later
C3_Witness ==
    /\ IsLoadCall
    /\ Len(attempted) >= 3
    /\ attempted[Len(attempted)].outcome = "ok"
    /\ ACTIVE_MODE # RequestedMode
    /\ ACTIVE_MODEL_ID # RequestedModel

\* C4 (as claimed): a load none of whose instantiations yields a handle
\* leaves the state Unloaded and returns the fallback flag.
C4_AllFailUnloads ==
    (IsLoadCall /\ attempted # <<>>
        /\ \A i \in 1..Len(attempted) : attempted[i].outcome # "ok") =>
        /\ ServiceState = Unloaded
        /\ result = Bool(ALLOW_FALLBACK)

\* C5 (as claimed): no candidate's failure leaves load_model as an error.
C5_NeverPropagated ==
    IsLoadCall => result # CreateRaised

\* C9: the first _create_model call of every loading call is for the
\* requested pair: (mode, override) when an override is given, else (mode,
\* the mode's first registry entry).
C9_RequestedFirst ==
    (call.op \in LoadingOps /\ attempted # <<>>) =>
        /\ attempted[1].mode = RequestedMode
        /\ attempted[1].model = RequestedModel

\* an override registered second under its mode was tried first, and a
\* call without override tried the default first
C9_Witness ==
    /\ IsLoadCall
    /\ call.model_id = CUSTOM_VOICE_17B_MODEL
    /\ RequestedMode = "custom_voice"
    /\ Len(attempted) >= 2
    /\ attempted[1].model = CUSTOM_VOICE_17B_MODEL
    /\ attempted[2].model = DEFAULT_CUSTOM_VOICE_MODEL

CandApplied == cand_out # NoCand

\* C8: the candidate list holds no (mode, model id) pair twice.
C8_NoDuplicates ==
    CandApplied =>
        \A i, j \in 1..Len(cand_out) : cand_out[i] = cand_out[j] => i = j

\* the requested model is a later registry entry of its own mode, with
\* cross-mode fallback: the full five-entry list
C8_Witness ==
    /\ CandApplied
    /\ cand_in.mode = "custom_voice"
    /\ cand_in.requested_model = CUSTOM_VOICE_17B_MODEL
    /\ ~cand_in.strict /\ ALLOW_CROSS_MODE_FALLBACK
    /\ Len(cand_out) = 5

\* C10: a candidate of another mode appears only when strict is false and
\* cross-mode fallback is enabled, and only after every same-mode candidate.
C10_StrictSameMode ==
    CandApplied =>
        \A i \in 1..Len(cand_out) :
            cand_out[i][1] # cand_in.mode =>
                /\ ~cand_in.strict
                /\ ALLOW_CROSS_MODE_FALLBACK
                /\ \A j \in i..Len(cand_out) : cand_out[j][1] # cand_in.mode

\* strict with cross-mode fallback enabled: only the mode's own two entries
C10_Witness ==
    /\ CandApplied
    /\ cand_in.strict /\ ALLOW_CROSS_MODE_FALLBACK
    /\ cand_in.mode = "voice_clone"
    /\ cand_in.requested_model = ""
    /\ Len(cand_out) = 2

SynthOps == {"synthesize_voice_design", "synthesize_custom_voice",
             "synthesize_voice_clone", "Bridge.synthesize"}

\* empty or whitespace-only text
Blank(text) == text \in {"", "  "}

\* the step is a call of a synthesis entry point
SynthCallStep == Idle /\ call'.op \in SynthOps

\* C11: a synthesis call with empty or whitespace-only text, and a voice-clone
\* call with empty reference audio, raises the input-validation error with
\* fallback enabled or not, having made no _create_model call and no call on
\* the handle, and leaves the model state of its module as it was.
C11_ValidationFirst ==
    [][ (/\ SynthCallStep
         /\ \/ Blank(call'.text)
            \/ call'.op = "synthesize_voice_clone" /\ call'.reference_audio = "")
        => /\ result' = (IF Blank(call'.text) THEN "raise:ValueError:text"
                         ELSE "raise:ValueError:reference_audio")
           /\ attempted' = <<>>
           /\ generated' = <<>>
           /\ wav' = NoWav
           /\ UNCHANGED <<service_vars, bridge_vars>>
      ]_vars

\* whitespace-only text and empty reference audio were each rejected with
\* fallback enabled and a model loaded
C11_Witness ==
    /\ ALLOW_FALLBACK
    /\ MODEL_LOADED
    /\ \/ call.op = "synthesize_custom_voice" /\ call.text = "  "
          /\ result = "raise:ValueError:text"
       \/ call.op = "synthesize_voice_clone" /\ call.text = "hello"
          /\ call.reference_audio = "" /\ result = "raise:ValueError:reference_audio"

\* the call just made is a synthesis call whose input passes validation
ValidSynthCall ==
    /\ call.op \in SynthOps
    /\ ~Blank(call.text)
    /\ call.op = "synthesize_voice_clone" => call.reference_audio # ""

\* the call tried to instantiate, and no instantiation yielded a model
NoneInstantiated ==
    /\ attempted # <<>>
    /\ \A i \in 1..Len(attempted) : attempted[i].outcome # "ok"

\* the module the call belongs to holds no model
CallLeftUnloaded ==
    IF call.op = "Bridge.synthesize" THEN BridgeState = BridgeUnloaded
    ELSE ServiceState = Unloaded

\* C12 (as claimed): with fallback enabled and valid input, a synthesis call
\* none of whose candidates instantiates returns a WAV at the requested sample
\* rate of max(1, floor(0.35 * sample rate)) frames, all zero, calls nothing
\* on a handle and leaves the state Unloaded.
C12_SilenceWhenUnloadable ==
    (ALLOW_FALLBACK /\ ValidSynthCall /\ NoneInstantiated) =>
        /\ result = "silence"
        /\ wav.nchannels = 1 /\ wav.sampwidth = 2
        /\ wav.framerate = call.sample_rate
        /\ Frames(wav) = [i \in 1..Max(1, FrameCountExact(call.sample_rate)) |-> 0]
        /\ generated = <<>>
        /\ CallLeftUnloaded

\* the generation of the call just made failed: the last call on the handle
\* raised or returned no audio payload
GenerationFailed ==
    /\ generated # <<>>
    /\ generated[Len(generated)].outcome \in {"noaudio", "raise", "typeerror"}

\* C13 (as claimed): a synthesis call whose model loaded and whose generation
\* raised or returned no audio returns the silence clip when fallback is
\* enabled, and signals a failure when it is disabled.
C13_SilenceWhenGenerationFails ==
    (ValidSynthCall /\ GenerationFailed) =>
        IF ALLOW_FALLBACK
        THEN result = "silence" /\ wav = silent_wav(call.sample_rate)
        ELSE result \in {"raise:RuntimeError:synthesis", GenerateRaised, SpeakersRaised}

\* the last instantiation of the call just made yielded a model
LastInstantiated ==
    /\ attempted # <<>>
    /\ attempted[Len(attempted)].outcome = "ok"

\* the module the call belongs to holds the model of the last instantiation
CallLeftLoaded ==
    LET last == attempted[Len(attempted)]
        model == [mode |-> last.mode, model |-> last.model]
    IN  IF call.op \in {"Bridge.synthesize", "Bridge.load_model"}
        THEN Bridge_MODEL_LOADED /\ Bridge_QWEN_MODEL = model
        ELSE MODEL_LOADED /\ QWEN_MODEL = model

\* C14 (as claimed): with fallback disabled, a synthesis call none of whose
\* candidates instantiates raises the runtime-unavailable error and leaves
\* the state Unloaded; and after any calls, failed ones included, a load or
\* synthesis call for which a candidate instantiates loads it and does not
\* fail to load.
C14_UnavailableAndRecoverable ==
    /\ (~ALLOW_FALLBACK /\ ValidSynthCall /\ NoneInstantiated) =>
            /\ result = "raise:RuntimeError:unavailable"
            /\ CallLeftUnloaded
    /\ (call.op \in LoadingOps \cup {"Bridge.synthesize", "Bridge.load_model"}
            /\ LastInstantiated) =>
            /\ CallLeftLoaded
            /\ result \notin {"False", "raise:RuntimeError:unavailable", CreateRaised}

\* C15: from any state unload_model returns success and leaves no handle, the
\* loaded flag false and no active mode or model id (from the Unloaded state
\* that changes nothing); a load of the pair that unload_model released calls
\* _create_model for that pair again.
C15_UnloadResets ==
    [][ /\ (Idle /\ call'.op = "unload_model") =>
              /\ result' = "True"
              /\ ~MODEL_LOADED' /\ QWEN_MODEL' = NoHandle
              /\ ACTIVE_MODE' = NONE /\ ACTIVE_MODEL_ID' = NONE
              /\ ServiceState = Unloaded => UNCHANGED service_vars
        /\ (Idle /\ call'.op = "Bridge.unload_model") =>
              /\ result' = "True"
              /\ ~Bridge_MODEL_LOADED' /\ Bridge_QWEN_MODEL' = NoHandle
        /\ (Idle /\ call'.op = "load_model" /\ released # NoPair
                 /\ released = <<RequestedMode', RequestedModel'>>) =>
              /\ attempted' # <<>>
              /\ <<attempted'[1].mode, attempted'[1].model>> = released
      ]_vars

\* the pair released by unload_model was loaded again by a new instantiation
C15_Witness ==
    /\ IsLoadCall
    /\ released # NoPair
    /\ released = <<RequestedMode, RequestedModel>>
    /\ Len(attempted) = 1 /\ attempted[1].outcome = "ok"
    /\ result = "True"
    /\ <<ACTIVE_MODE, ACTIVE_MODEL_ID>> = released

\* C16: get_supported_speakers for a mode that resolves to another mode than
\* custom_voice returns the empty list from any state, makes no _create_model
\* call and no call on the handle, and leaves the four fields as they were.
C16_NoSpeakersOutsideCustomVoice ==
    [][ (Idle /\ call'.op = "get_supported_speakers"
              /\ RequestedMode' # "custom_voice") =>
            /\ result' = "[]"
            /\ attempted' = <<>>
            /\ generated' = <<>>
            /\ UNCHANGED service_vars
      ]_vars

\* a speaker query for voice_design while a custom_voice model is active
C16_Witness ==
    /\ call.op = "get_supported_speakers"
    /\ call.mode = "voice_design"
    /\ MODEL_LOADED /\ ACTIVE_MODE = "custom_voice"
    /\ result = "[]"

\* the generate_custom_voice calls of the call just made
CustomVoiceCalls ==
    {i \in 1..Len(generated) : generated[i].method = "generate_custom_voice"}

\* the handle's speaker query was made and returned a non-empty list
SpeakersListed ==
    \E i \in 1..Len(generated) :
        /\ generated[i].method = "get_supported_speakers"
        /\ generated[i].outcome = "list"

\* the requested speaker in lower case, the module's default when none is given
LowerCasedRequest ==
    CASE call.speaker = "Serena" -> "serena"
      [] call.speaker = ""       -> (IF call.op = "Bridge.synthesize" THEN "serena" ELSE "ryan")
      [] OTHER                   -> call.speaker

\* C17: in custom-voice synthesis against a handle whose speaker query returns
\* ["ryan", "serena"], every generate_custom_voice call is handed a speaker of
\* that list: the lower-cased requested one (the default without a request)
\* when the list has it, else "ryan", the first; the call then ends as its
\* generation does, with no error of its own for an unsupported speaker.
C17_SpeakerSupported ==
    (call.op \in {"synthesize_custom_voice", "Bridge.synthesize"} /\ SpeakersListed) =>
        /\ CustomVoiceCalls # {}
        /\ \A i \in CustomVoiceCalls :
              /\ generated[i].speaker \in {"ryan", "serena"}
              /\ generated[i].speaker =
                    (IF LowerCasedRequest \in {"ryan", "serena"}
                     THEN LowerCasedRequest ELSE "ryan")
        /\ generated[Len(generated)].outcome = "audio" => result = "audio"

\* "unknown-speaker" was replaced by the first listed speaker and "Serena"
\* passed on in lower case, both calls returning audio
C17_Witness ==
    /\ call.op = "synthesize_custom_voice"
    /\ SpeakersListed
    /\ result = "audio"
    /\ \/ call.speaker = "unknown-speaker" /\ generated[Len(generated)].speaker = "ryan"
       \/ call.speaker = "Serena" /\ generated[Len(generated)].speaker = "serena"

\* the known mode a mode input names once trimmed and lower-cased, else the
\* configured default
ExpectedMode ==
    CASE call.mode \in {"voice_design", "custom_voice"} -> call.mode
      [] call.mode = " Voice_Clone "                     -> "voice_clone"
      [] OTHER                                           -> DEFAULT_MODE

\* C18 (as claimed): for every mode input and every configured default mode
\* the resolved mode is the known mode the input names, else the default; it
\* is a key of the registry, and no call fails resolving its mode or the
\* mode's default model.
C18_ResolveModeTotal ==
    call.op \in {"load_model", "get_supported_speakers"} =>
        /\ RequestedMode = ExpectedMode
        /\ RequestedMode \in DOMAIN MODEL_REGISTRY
        /\ result # KeyError

WavApplied == wav_out # NoWav

\* C19 (as claimed): _to_wav_bytes writes one frame per sample, in input
\* order, each the signed 16-bit value round(clip(sample, -1, 1) * 32767),
\* within [-32767, 32767].
C19_RoundedFrames ==
    (WavApplied /\ wav_in.op = "_to_wav_bytes") =>
        /\ wav_out.framerate = wav_in.sample_rate
        /\ Frames(wav_out) =
              [i \in 1..Len(wav_in.samples) |->
                  RoundDiv(Clip(wav_in.samples[i]) * PCM_FULL_SCALE, SampleScale)]
        /\ \A i \in 1..Len(wav_in.samples) :
              Frames(wav_out)[i] \in -PCM_FULL_SCALE..PCM_FULL_SCALE

\* the call just made is a load with strict set
StrictLoadCall ==
    \/ call.op = "get_supported_speakers" /\ RequestedMode = "custom_voice"
    \/ call.op = "load_model" /\ call.strict = "1"

\* C20 (as claimed): after a strict load, and so after every speaker query
\* for custom_voice, the state is Unloaded or Loaded with the resolved
\* requested mode active; speakers are reported only from a handle created
\* for custom_voice.
C20_StrictKeepsMode ==
    StrictLoadCall =>
        /\ \/ ServiceState = Unloaded
           \/ MODEL_LOADED /\ QWEN_MODEL # NoHandle /\ ACTIVE_MODE = RequestedMode
        /\ result = "[ryan,serena]" => QWEN_MODEL.mode = "custom_voice"

\* the identifiers the _create_model calls of the call just made were for
AttemptedIds == {attempted[i].model : i \in 1..Len(attempted)}

\* C21: within one loading call no model identifier is instantiated twice,
\* not even under two modes (so no failed candidate is retried), and every
\* instantiated identifier is a registered one or the requested one: the
\* call ends after at most one _create_model call per such identifier.
C21_OneAttemptPerIdentifier ==
    call.op \in LoadingOps =>
        /\ \A i, j \in 1..Len(attempted) :
              attempted[i].model = attempted[j].model => i = j
        /\ AttemptedIds \subseteq RegisteredModels \cup {RequestedModel}
        /\ Len(attempted) <= Cardinality(RegisteredModels \cup {RequestedModel})

\* a load asking one mode for an identifier registered under another went
\* through every candidate, across modes, and none yielded a model
C21_Witness ==
    /\ IsLoadCall
    /\ RequestedMode = "voice_design"
    /\ RequestedModel = CUSTOM_VOICE_17B_MODEL
    /\ Len(attempted) = Cardinality(RegisteredModels)
    /\ \A i \in 1..Len(attempted) : attempted[i].outcome = "none"
    /\ \E i \in 1..Len(attempted) : attempted[i].mode = "custom_voice"

\* _generate_voice_clone ran on the drawn handle
CloneApplied == clone_out # NoClone

ClaimedCombinations ==
    <<<<"generate_voice_clone", "reference_audio">>,
      <<"generate_voice_clone", "prompt_audio">>,
      <<"generate_base", "prompt_audio">>>>

\* the combination of the k-th call made on the handle
CalledCombination(k) == <<clone_out.calls[k].method, clone_out.calls[k].kwarg>>

\* combination i was called, and what it did then
WasCalled(i) ==
    \E k \in 1..Len(clone_out.calls) : CalledCombination(k) = ClaimedCombinations[i]

OutcomeOf(i) ==
    LET k == CHOOSE k \in 1..Len(clone_out.calls) :
                 CalledCombination(k) = ClaimedCombinations[i]
    IN  clone_out.calls[k].outcome

\* combination i is out of the way: absent on the handle, or called and
\* rejected (TypeError) or without audio payload
PassedOver(i) ==
    \/ ClaimedCombinations[i][1] \notin clone_in.methods
    \/ WasCalled(i) /\ OutcomeOf(i) \in {"typeerror", "noaudio"}

\* C23 (as claimed): the calls on the handle are combinations in the claimed
\* order; a combination is called only if every earlier one is absent,
\* rejected its arguments or yielded no audio; the first one that exists and
\* returns audio gives the result and ends the calls; if none returns audio
\* the result is "no audio" (None).
C23_FirstSuccessInOrder ==
    (CloneApplied /\ clone_in.handle # NoHandle) =>
        /\ \A k \in 1..Len(clone_out.calls) :
              \E i \in 1..Len(ClaimedCombinations) :
                  /\ CalledCombination(k) = ClaimedCombinations[i]
                  /\ \A j \in 1..(i - 1) : PassedOver(j)
                  /\ \A l \in 1..(k - 1) :
                        \E j \in 1..(i - 1) : CalledCombination(l) = ClaimedCombinations[j]
        /\ \A i \in 1..Len(ClaimedCombinations) :
              (/\ ClaimedCombinations[i][1] \in clone_in.methods
               /\ \A j \in 1..(i - 1) : PassedOver(j)) =>
                  /\ WasCalled(i)
                  /\ OutcomeOf(i) = "audio" =>
                        /\ clone_out.ret = "audio"
                        /\ clone_out.wav = to_wav_bytes(ModelSamples, CloneSampleRates[i])
                        /\ CalledCombination(Len(clone_out.calls)) = ClaimedCombinations[i]
        /\ (\A i \in 1..Len(ClaimedCombinations) : ~(WasCalled(i) /\ OutcomeOf(i) = "audio"))
              => clone_out.ret = "None"

\* C24: with the calls serialized, between any two of them the fields of the
\* active model agree: the loaded flag is set exactly when a handle is held,
\* exactly when the active mode is set, exactly when the active model id is
\* set (flag and handle for the bridge); so is_model_loaded() answers True
\* exactly when a handle is held, also after a load that an error ended.
C24_FieldsAgree ==
    /\ MODEL_LOADED <=> QWEN_MODEL # NoHandle
    /\ MODEL_LOADED <=> ACTIVE_MODE # NONE
    /\ MODEL_LOADED <=> ACTIVE_MODEL_ID # NONE
    /\ Bridge_MODEL_LOADED <=> Bridge_QWEN_MODEL # NoHandle
    /\ call.op = "is_model_loaded" => (result = "True" <=> QWEN_MODEL # NoHandle)
    /\ call.op = "Bridge.is_model_loaded" =>
          (result = "True" <=> Bridge_QWEN_MODEL # NoHandle)

\* a load that went through two candidates and was ended by the error of the
\* second's instantiation, while a model of an earlier load is held
C24_Witness ==
    /\ IsLoadCall
    /\ result = CreateRaised
    /\ Len(attempted) >= 2
    /\ MODEL_LOADED
    /\ QWEN_MODEL # NoHandle

\* the caller repeats the call it just made: a load, or a synthesis request
\* that passes validation, asking for a pair
RepeatStep ==
    /\ call.op \in {"load_model", "_ensure_loaded", "synthesize_voice_design"}
    /\ call' = call
    /\ call.op = "synthesize_voice_design" => ~Blank(call.text)
    /\ RequestedModel # KeyError

\* the state is Loaded with the pair the call asked for
RequestedIsActive ==
    /\ MODEL_LOADED /\ QWEN_MODEL # NoHandle
    /\ ACTIVE_MODE = RequestedMode
    /\ ACTIVE_MODEL_ID = RequestedModel

\* the call loaded a model through a later candidate than the pair asked for
FellBack ==
    /\ Len(attempted) >= 2
    /\ attempted[Len(attempted)].outcome = "ok"
    /\ MODEL_LOADED /\ QWEN_MODEL # NoHandle
    /\ <<ACTIVE_MODE, ACTIVE_MODEL_ID>> # <<RequestedMode, RequestedModel>>

\* C25: a load or synthesis request for a pair P made again right after
\* itself makes no _create_model call exactly when the preceding call left P
\* itself active; after a preceding call that succeeded through a fallback
\* candidate other than P, the repeated call instantiates again, P first and
\* then along the candidate list.
C25_ShortCircuitOnActivePair ==
    [][ RepeatStep =>
          /\ attempted' = <<>> <=> RequestedIsActive
          /\ FellBack =>
                /\ attempted' # <<>>
                /\ attempted'[1].mode = RequestedMode
                /\ attempted'[1].model = RequestedModel
                /\ Len(attempted') <= Len(CallCandidates)
                /\ \A i \in 1..Len(attempted') :
                      <<attempted'[i].mode, attempted'[i].model>> = CallCandidates[i]
      ]_vars

\* a load asked for a pair, got a model of another after two or more
\* instantiations, was made again, and instantiated anew: the pair asked for
\* and one more candidate
C25_Witness ==
    /\ IsLoadCall
    /\ preceding.attempts >= 2
    /\ preceding.active \notin {NoPair, <<RequestedMode, RequestedModel>>}
    /\ Len(attempted) = 2
    /\ attempted[1].mode = RequestedMode
    /\ attempted[1].model = RequestedModel
    /\ attempted[2].outcome = "ok"

AllIdle == \A p \in Procs : pc[p] = "idle"

\* C6 (as claimed): at every point, also inside load_model, at most one
\* model object is held.
C6_AtMostOneHandle == Cardinality(HeldHandles) <= 1

\* the four fields do not describe one load: Loaded or an active pair with no
\* handle, or a handle created for another pair than the active one
Torn ==
    \/ QWEN_MODEL = NoHandle /\ (MODEL_LOADED \/ ACTIVE_MODE # NONE \/ ACTIVE_MODEL_ID # NONE)
    \/ QWEN_MODEL # NoHandle /\ (~MODEL_LOADED \/ ACTIVE_MODE # QWEN_MODEL.mode
                                 \/ ACTIVE_MODEL_ID # QWEN_MODEL.model)

\* C7: with no lock around the four fields, calls that overlap can leave them
\* torn once every call has returned; calls run one after another never do.
C7_TornOnlyIfOverlapped == (AllIdle /\ Torn) => overlapped

\* every call has returned, and the handle created for one pair is stored
\* with another pair recorded as active
C7_Witness ==
    /\ AllIdle
    /\ overlapped
    /\ MODEL_LOADED
    /\ QWEN_MODEL # NoHandle
    /\ <<ACTIVE_MODE, ACTIVE_MODEL_ID>> # <<QWEN_MODEL.mode, QWEN_MODEL.model>>

====
